---- MODULE Spec2Model ----
(***************************************************************************)
(* Model of app.py, the GenAI Wealth Advisor Streamlit script.             *)
(*                                                                         *)
(* Streamlit runs the script from top to bottom once per user event.  A    *)
(* button returns True only in the run its own click triggered; a widget   *)
(* returns the value the browser holds for it, or its default when the     *)
(* browser holds none; the values of widgets a run did not render are      *)
(* dropped when that run ends.  st.session_state survives across runs.     *)
(* User events are taken between runs; a run, once started, goes to its    *)
(* end, to st.stop() or to an uncaught exception.                          *)
(*                                                                         *)
(* Spec     : the interactive session (events and script steps).           *)
(* PlanSpec : the monthly-plan arithmetic of lines 142-160 applied to      *)
(*            enumerated (target, rate, years) inputs.                     *)
(*                                                                         *)
(* The plan arithmetic is modelled in exact rational arithmetic on         *)
(* arbitrary-precision naturals (the code uses IEEE doubles; the inputs    *)
(* enumerated here are far from any rounding tie, so both agree).  Rates   *)
(* are held in hundredths of a percent (12.0 % is 1200), the step of a     *)
(* float slider.                                                           *)
(***************************************************************************)
EXTENDS Integers, Sequences, FiniteSets, TLC

VARIABLES
    session_state,  \* st.session_state: a function whose domain is its keys
    widgets,        \* widget values held by the browser, by widget label
    rendered,       \* widgets and buttons rendered by the current / last run
    trigger,        \* the button whose click started the current run, or "none"
    pc,             \* position of the script run; "idle" between runs
    status,         \* how the last run ended
    allocation,     \* script local, <<>> while unset
    request,        \* what the prompt sent to the model embeds, <<>> while unsent
    llm,            \* outcome of requests.post in this run
    explanation,    \* script local, <<>> while unset
    mip_info,       \* script local, <<>> while unset
    pdf,            \* result of generate_pdf_bytes in this run, <<>> while unset
    out,            \* what the current run has put on the page, in order
    alloc_seen,     \* history: the first results of get_portfolio_allocation, by risk
    call,           \* PlanSpec: the (target, rate, years) under evaluation
    result          \* PlanSpec: outcome of the plan block for call

vars == <<session_state, widgets, rendered, trigger, pc, status, allocation,
          request, llm, explanation, mip_info, pdf, out, alloc_seen, call, result>>

sessionVars == <<session_state, widgets, rendered, trigger, pc, status,
                 allocation, request, llm, explanation, mip_info, pdf, out, alloc_seen>>

(***************************************************************************)
(* Arbitrary-precision naturals: little-endian sequences of limbs.         *)
(***************************************************************************)
Base == 10 ^ 4

Abs(x) == IF x < 0 THEN -x ELSE x

Limb(a, i) == IF i <= Len(a) THEN a[i] ELSE 0

RECURSIVE TopNonZero(_, _, _)
TopNonZero(a, lo, hi) ==
    IF lo > hi THEN 0
    ELSE IF lo = hi THEN (IF a[lo] = 0 THEN 0 ELSE lo)
    ELSE LET mid == (lo + hi) \div 2
             h == TopNonZero(a, mid + 1, hi)
         IN IF h # 0 THEN h ELSE TopNonZero(a, lo, mid)

Normalise(a) == SubSeq(a, 1, TopNonZero(a, 1, Len(a)))

FromInt(k) ==
    IF k = 0 THEN <<>>
    ELSE IF k < Base THEN <<k>>
    ELSE IF k < Base * Base THEN <<k % Base, k \div Base>>
    ELSE <<k % Base, (k \div Base) % Base, k \div (Base * Base)>>

\* limbs lo..hi of a * m + c, and the carry out of limb hi
RECURSIVE MulRange(_, _, _, _, _)
MulRange(a, m, lo, hi, c) ==
    IF lo = hi
    THEN LET p == a[lo] * m + c
         IN [limbs |-> <<p % Base>>, carry |-> p \div Base]
    ELSE LET mid == (lo + hi) \div 2
             L == MulRange(a, m, lo, mid, c)
             H == MulRange(a, m, mid + 1, hi, L.carry)
         IN [limbs |-> L.limbs \o H.limbs, carry |-> H.carry]

MulSmall(a, m) ==
    IF m = 0 \/ Len(a) = 0 THEN <<>>
    ELSE LET r == MulRange(a, m, 1, Len(a), 0) IN r.limbs \o FromInt(r.carry)

RECURSIVE AddRange(_, _, _, _, _)
AddRange(a, b, lo, hi, c) ==
    IF lo = hi
    THEN LET s == Limb(a, lo) + Limb(b, lo) + c
         IN [limbs |-> <<s % Base>>, carry |-> s \div Base]
    ELSE LET mid == (lo + hi) \div 2
             L == AddRange(a, b, lo, mid, c)
             H == AddRange(a, b, mid + 1, hi, L.carry)
         IN [limbs |-> L.limbs \o H.limbs, carry |-> H.carry]

Add(a, b) ==
    LET n == IF Len(a) >= Len(b) THEN Len(a) ELSE Len(b) IN
    IF n = 0 THEN <<>>
    ELSE LET r == AddRange(a, b, 1, n, 0) IN r.limbs \o FromInt(r.carry)

\* a - b, for a >= b
RECURSIVE SubRange(_, _, _, _, _)
SubRange(a, b, lo, hi, c) ==
    IF lo = hi
    THEN LET s == a[lo] - Limb(b, lo) - c
         IN IF s < 0 THEN [limbs |-> <<s + Base>>, carry |-> 1]
                     ELSE [limbs |-> <<s>>, carry |-> 0]
    ELSE LET mid == (lo + hi) \div 2
             L == SubRange(a, b, lo, mid, c)
             H == SubRange(a, b, mid + 1, hi, L.carry)
         IN [limbs |-> L.limbs \o H.limbs, carry |-> H.carry]

Sub(a, b) ==
    IF Len(a) = 0 THEN <<>> ELSE Normalise(SubRange(a, b, 1, Len(a), 0).limbs)

RECURSIVE CmpRange(_, _, _, _)
CmpRange(a, b, lo, hi) ==
    IF lo = hi
    THEN (IF a[lo] > b[lo] THEN 1 ELSE IF a[lo] < b[lo] THEN -1 ELSE 0)
    ELSE LET mid == (lo + hi) \div 2
             h == CmpRange(a, b, mid + 1, hi)
         IN IF h # 0 THEN h ELSE CmpRange(a, b, lo, mid)

Cmp(a, b) ==
    IF Len(a) > Len(b) THEN 1
    ELSE IF Len(a) < Len(b) THEN -1
    ELSE IF Len(a) = 0 THEN 0
    ELSE CmpRange(a, b, 1, Len(a))

\* acc * m^k
RECURSIVE PowFrom(_, _, _)
PowFrom(acc, m, k) ==
    IF k = 0 THEN acc
    ELSE IF k = 1 THEN MulSmall(acc, m)
    ELSE LET half == PowFrom(acc, m, k \div 2)
         IN IF Len(half) >= 0 THEN PowFrom(half, m, k - k \div 2) ELSE <<>>

Pow(m, n) == PowFrom(<<1>>, m, n)

Shift(a) == IF Len(a) = 0 THEN a ELSE <<0>> \o a

RECURSIVE MulFrom(_, _, _)
MulFrom(a, b, i) ==
    IF i > Len(b) THEN <<>>
    ELSE Add(MulSmall(a, b[i]), Shift(MulFrom(a, b, i + 1)))

Mul(a, b) == MulFrom(a, b, 1)

\* a * k for a machine integer k
SmallLimit == ((2 ^ 30 - 1) + 2 ^ 30) \div Base - 1

MulInt(a, k) == IF k <= SmallLimit THEN MulSmall(a, k) ELSE Mul(a, FromInt(k))

\* the largest q in lo..hi-1 with q * den <= num, given lo * den <= num < hi * den
RECURSIVE DivSearch(_, _, _, _)
DivSearch(num, den, lo, hi) ==
    IF hi - lo <= 1 THEN lo
    ELSE LET mid == (lo + hi) \div 2
         IN IF Cmp(MulInt(den, mid), num) <= 0
            THEN DivSearch(num, den, mid, hi)
            ELSE DivSearch(num, den, lo, mid)

\* every quotient formed below is smaller than this
QuotientLimit == 2 ^ 30

\* a bound above num / den, from the lengths of the two
QuotientBound(num, den) ==
    LET k == Len(num) - Len(den) + 1
    IN IF k <= 0 THEN 1
       ELSE IF k = 1 THEN Base
       ELSE IF k = 2 THEN Base * Base
       ELSE QuotientLimit

\* floor(num / den) for den > 0
Div(num, den) == DivSearch(num, den, 0, QuotientBound(num, den))

(***************************************************************************)
(* The monthly investment plan, lines 142-160.                             *)
(***************************************************************************)
RateMin == 600
RateMax == 1500
RateDefault == 1200
YearsMin == 1
YearsMax == 40
YearsDefault == 10
TargetDefault == 4500000
MonthsPerYear == 12

\* rate / 100 / 12 with rate in hundredths of a percent is rate / RateDivisor
RateDivisor == 100 * 100 * MonthsPerYear

\* the inputs enumerated for the plan arithmetic
Targets == {-50000, 0, 1, 50000, TargetDefault}
Rates == {-600, 0, RateMin, 725, RateDefault, RateMax}
Durations == {0, YearsMin, YearsDefault, YearsMax}

\* what the three input widgets of lines 142, 143 and 147 let the user enter:
\* the sliders clamp to their range, the number input has no minimum
WidgetAllows(target, rate, years) ==
    /\ rate \in RateMin..RateMax
    /\ years \in YearsMin..YearsMax

\* m^n for the multipliers and period counts of the enumerated inputs
PowTable ==
    [m \in {RateDivisor + r : r \in Rates \cup {0}},
     n \in {y * MonthsPerYear : y \in Durations} |-> Pow(m, n)]

\* round(x, 0) then int(x) for x = num / den >= 0: nearest, ties to even
RoundTruncates(num, den) == Div(num, den)

RoundHalfEven(num, den) ==
    LET q == Div(num, den)
        c == Cmp(MulSmall(Sub(num, MulInt(den, q)), 2), den)
    IN IF c > 0 THEN q + 1 ELSE IF c = 0 THEN q + (q % 2) ELSE q

\* (1 + monthly_rate)**months - 1 as the fraction GrowthNum / GrowthDen, in
\* absolute value; its sign is the sign of rate
GrowthDen(rate, years) == PowTable[RateDivisor, years * MonthsPerYear]

GrowthNum(rate, years) ==
    LET P == PowTable[RateDivisor + rate, years * MonthsPerYear]
        Q == GrowthDen(rate, years)
    IN IF Cmp(P, Q) >= 0 THEN Sub(P, Q) ELSE Sub(Q, P)

\* target_corpus * monthly_rate / ((1 + monthly_rate)**months - 1) in absolute
\* value, as the fraction PlanNum / PlanDen
PlanNum(target, rate, years) ==
    Mul(MulSmall(GrowthDen(rate, years), Abs(rate)), FromInt(Abs(target)))

PlanDen(target, rate, years) ==
    MulSmall(GrowthNum(rate, years), RateDivisor)

\* lines 144-160: the plan, or the ZeroDivisionError of line 148
monthly_investment_plan(target, rate, years) ==
    IF Len(GrowthNum(rate, years)) = 0
    THEN [kind |-> "ZeroDivisionError"]
    ELSE LET m == RoundHalfEven(PlanNum(target, rate, years),
                                PlanDen(target, rate, years))
         IN [kind |-> "mip_info",
             monthly |-> IF target < 0 THEN -m ELSE m,
             years |-> years,
             rate |-> rate,
             future_value |-> target]

\* the plan of every enumerated input
PlanTable ==
    [t \in Targets, r \in Rates, y \in Durations |->
        monthly_investment_plan(t, r, y)]

(***************************************************************************)
(* Pure helpers of the script.                                             *)
(***************************************************************************)
RiskProfiles == {"Low", "Medium", "High"}

\* lines 25-30 with the Medium row off balance
get_portfolio_allocation_unbalanced(risk) ==
    CASE risk = "Low"    -> [Equity |-> 30, Debt |-> 60, Gold |-> 10]
      [] risk = "Medium" -> [Equity |-> 50, Debt |-> 40, Gold |-> 20]
      [] risk = "High"   -> [Equity |-> 70, Debt |-> 20, Gold |-> 10]

\* lines 25-30 with the Low and High rows exchanged
get_portfolio_allocation_swapped(risk) ==
    CASE risk = "Low"    -> [Equity |-> 70, Debt |-> 20, Gold |-> 10]
      [] risk = "Medium" -> [Equity |-> 50, Debt |-> 40, Gold |-> 10]
      [] risk = "High"   -> [Equity |-> 30, Debt |-> 60, Gold |-> 10]

\* lines 25-30
get_portfolio_allocation(risk) ==
    CASE risk = "Low"    -> [Equity |-> 30, Debt |-> 60, Gold |-> 10]
      [] risk = "Medium" -> [Equity |-> 50, Debt |-> 40, Gold |-> 10]
      [] risk = "High"   -> [Equity |-> 70, Debt |-> 20, Gold |-> 10]

\* what requests.post can come back with: an exception, or a response with a
\* status code and a body
Statuses == {200, 304, 404, 500}
Bodies == {"not_json", "no_choices", "content"}
Content == "generated explanation"
\* line 54 (the apostrophe of the source is a typographic one)
Fallback == "Sorry, I couldn't fetch the explanation right now."

Responses ==
    {[kind |-> k, status_code |-> 0, body |-> "none"] :
        k \in {"ConnectionError", "Timeout"}}
    \cup {[kind |-> "response", status_code |-> c, body |-> b] :
            c \in Statuses, b \in Bodies}

\* lines 47-54 with an except clause that catches only what requests raises
explain_portfolio_uncaught(resp) ==
    IF \/ resp.kind # "response"
       \/ resp.status_code \in 400..599
    THEN [raised |-> FALSE, notice |-> TRUE, text |-> Fallback]
    ELSE IF resp.body # "content"
    THEN [raised |-> TRUE, notice |-> FALSE, text |-> ""]
    ELSE [raised |-> FALSE, notice |-> FALSE, text |-> Content]

\* lines 47-54: raise_for_status raises for 4xx and 5xx only; resp.json() raises on
\* a body that is not JSON; the subscripts raise when choices[0].message.content
\* is missing; every one of these is caught by except Exception
explain_portfolio(resp) ==
    IF \/ resp.kind # "response"
       \/ resp.status_code \in 400..599
       \/ resp.body # "content"
    THEN [raised |-> FALSE, notice |-> TRUE, text |-> Fallback]
    ELSE [raised |-> FALSE, notice |-> FALSE, text |-> Content]

\* lines 57-101: the fields the report is laid out from
generate_pdf_bytes(name, age, income, risk, goal, alloc, text, mip) ==
    [name |-> name, age |-> age, income |-> income, risk |-> risk,
     goal |-> goal, allocation |-> alloc, explanation |-> text,
     mip_info |-> mip,
     file_name |-> "Wealth_Report.pdf", mime |-> "application/pdf"]

(***************************************************************************)
(* Widgets and buttons.                                                    *)
(***************************************************************************)
AgeDefault == 30
IncomeDefault == 50000

\* how many results per risk the history alloc_seen keeps
MaxSeen == 2

Buttons == {"Login", "Generate Portfolio", "Generate PDF Report", "Restart"}

\* the value each widget returns when the browser holds none for it
WidgetDefault ==
    [email |-> "", age |-> AgeDefault, income |-> IncomeDefault,
     risk_tolerance |-> "Low", goal |-> "",
     rate |-> RateDefault, years |-> YearsDefault,
     target_corpus |-> TargetDefault, rating |-> "Select"]

\* the values the user enters in this model
WidgetChoices ==
    [email |-> {"", "a@x.in"}, age |-> {AgeDefault, 70},
     income |-> {IncomeDefault, 51000},
     risk_tolerance |-> RiskProfiles, goal |-> {"", "retirement"},
     rate |-> {RateMin, RateDefault, RateMax},
     years |-> {YearsMin, YearsDefault, YearsMax},
     target_corpus |-> {0, 50000, TargetDefault},
     rating |-> {"Select", "Excellent", "Good", "Average", "Poor"}]

WidgetLabels == DOMAIN WidgetDefault

NoState == [k \in {} |-> ""]

\* the widget values after the script has rendered the widgets in labels
Show(w, labels) ==
    [k \in DOMAIN w \cup labels |-> IF k \in DOMAIN w THEN w[k] ELSE WidgetDefault[k]]

\* the widget values that survive a run that rendered the elements in shown
Cull(w, shown) == [k \in DOMAIN w \cap shown |-> w[k]]

Range(seq) == {seq[i] : i \in DOMAIN seq}

(***************************************************************************)
(* The session: user events between runs, and the steps of a script run.   *)
(***************************************************************************)
Value(label) == widgets[label]

LoggedIn == "user" \in DOMAIN session_state

\* a run starts at the top of the script with fresh locals
StartRun(t) ==
    /\ trigger' = t
    /\ pc' = "login_section"
    /\ status' = "running"
    /\ rendered' = {}
    /\ allocation' = <<>>
    /\ request' = <<>>
    /\ llm' = <<>>
    /\ explanation' = <<>>
    /\ mip_info' = <<>>
    /\ pdf' = <<>>
    /\ out' = <<>>

\* a run ends: the page keeps what the run rendered, the rest is dropped
EndRun(how, w, shown) ==
    /\ pc' = "idle"
    /\ status' = how
    /\ rendered' = shown
    /\ widgets' = Cull(w, shown)

\* the user clicks a button that is on the page
Click(b) ==
    /\ pc = "idle"
    /\ b \in rendered \cap Buttons
    /\ StartRun(b)
    /\ UNCHANGED <<session_state, widgets, alloc_seen, call, result>>

\* the user changes a widget that is on the page
Change(w, v) ==
    /\ pc = "idle"
    /\ w \in DOMAIN widgets
    /\ v \in WidgetChoices[w] \ {widgets[w]}
    /\ widgets' = [widgets EXCEPT ![w] = v]
    /\ StartRun("none")
    /\ UNCHANGED <<session_state, alloc_seen, call, result>>

\* lines 104-108 and 18-23
login_section ==
    /\ pc = "login_section"
    /\ widgets' = Show(widgets, {"email"})
    /\ rendered' = rendered \cup {"email", "Login"}
    /\ IF trigger = "Login"
       THEN /\ session_state' =
                   [k \in DOMAIN session_state \cup {"user"} |->
                       IF k = "user" THEN [email |-> widgets'["email"]]
                       ELSE session_state[k]]
            /\ out' = Append(out, "logged_in")
       ELSE UNCHANGED <<session_state, out>>
    /\ pc' = "login_gate"
    /\ UNCHANGED <<trigger, status, allocation, request, llm, explanation, mip_info,
                   pdf, alloc_seen, call, result>>

\* lines 109-110, with the gate left open
LoginGateOpen ==
    /\ pc = "login_gate"
    /\ pc' = "profile_inputs"
    /\ UNCHANGED <<widgets, rendered, status>>
    /\ UNCHANGED <<session_state, trigger, allocation, request, llm, explanation,
                   mip_info, pdf, out, alloc_seen, call, result>>

\* lines 109-110
LoginGate ==
    /\ pc = "login_gate"
    /\ IF ~LoggedIn
       THEN EndRun("stopped", widgets, rendered)
       ELSE /\ pc' = "profile_inputs"
            /\ UNCHANGED <<widgets, rendered, status>>
    /\ UNCHANGED <<session_state, trigger, allocation, request, llm, explanation,
                   mip_info, pdf, out, alloc_seen, call, result>>

\* lines 112-117
ProfileInputs ==
    /\ pc = "profile_inputs"
    /\ widgets' = Show(widgets, {"age", "income", "risk_tolerance", "goal"})
    /\ rendered' = rendered \cup {"age", "income", "risk_tolerance", "goal"}
    /\ pc' = "generate_button"
    /\ UNCHANGED <<session_state, trigger, status, allocation, request, llm,
                   explanation, mip_info, pdf, out, alloc_seen, call, result>>

\* line 122: the button, and the end of the script when it was not clicked
GenerateButton ==
    /\ pc = "generate_button"
    /\ IF trigger = "Generate Portfolio"
       THEN /\ pc' = "allocation"
            /\ rendered' = rendered \cup {"Generate Portfolio"}
            /\ UNCHANGED <<widgets, status>>
       ELSE EndRun("complete", widgets, rendered \cup {"Generate Portfolio"})
    /\ UNCHANGED <<session_state, trigger, allocation, request, llm, explanation,
                   mip_info, pdf, out, alloc_seen, call, result>>

\* line 123
Allocate ==
    /\ pc = "allocation"
    /\ LET risk == Value("risk_tolerance")
           a == get_portfolio_allocation(risk)
       IN /\ allocation' = <<a>>
          /\ alloc_seen' = [alloc_seen EXCEPT
                               ![risk] = IF Len(@) < MaxSeen THEN Append(@, a) ELSE @]
    /\ pc' = "donut_chart"
    /\ UNCHANGED <<session_state, widgets, rendered, trigger, status, request, llm,
                   explanation, mip_info, pdf, out, call, result>>

\* lines 126-133 followed at once by the plan block, skipping line 136
DonutChartThenPlan ==
    /\ pc = "donut_chart"
    /\ out' = Append(out, "chart")
    /\ pc' = "monthly_plan"
    /\ UNCHANGED <<session_state, widgets, rendered, trigger, status,
                   allocation, request, llm, explanation, mip_info, pdf, alloc_seen,
                   call, result>>

\* lines 126-133
DonutChart ==
    /\ pc = "donut_chart"
    /\ out' = Append(out, "chart")
    /\ pc' = "explain_call"
    /\ UNCHANGED <<session_state, widgets, rendered, trigger, status,
                   allocation, request, llm, explanation, mip_info, pdf, alloc_seen,
                   call, result>>

\* lines 136, 33-49: the prompt is built from the allocation, age, risk and
\* goal, and the request is sent; the script blocks in requests.post
ExplainCall ==
    /\ pc = "explain_call"
    /\ request' = <<[age |-> Value("age"), risk |-> Value("risk_tolerance"),
                     goal |-> Value("goal"),
                     Equity |-> allocation[1].Equity,
                     Debt |-> allocation[1].Debt,
                     Gold |-> allocation[1].Gold]>>
    /\ pc' = "explain_wait"
    /\ UNCHANGED <<session_state, widgets, rendered, trigger, status,
                   allocation, llm, explanation, mip_info, pdf, out,
                   alloc_seen, call, result>>

\* lines 48-54: requests.post returns or raises, within the 30 s timeout, and
\* explain_portfolio returns
ExplainReturn ==
    /\ pc = "explain_wait"
    /\ \E resp \in Responses :
          LET r == explain_portfolio(resp)
          IN /\ llm' = <<resp>>
             /\ IF r.raised
                THEN /\ EndRun("exception", widgets, rendered)
                     /\ UNCHANGED <<explanation, out>>
                ELSE /\ explanation' = <<r.text>>
                     /\ out' = IF r.notice THEN Append(out, "llm_error") ELSE out
                     /\ pc' = "write_explanation"
                     /\ UNCHANGED <<widgets, rendered, status>>
    /\ UNCHANGED <<session_state, trigger, allocation, request, mip_info, pdf,
                   alloc_seen, call, result>>

\* lines 137-138
WriteExplanation ==
    /\ pc = "write_explanation"
    /\ out' = Append(out, "explanation")
    /\ pc' = "monthly_plan"
    /\ UNCHANGED <<session_state, widgets, rendered, trigger, status,
                   allocation, request, llm, explanation, mip_info, pdf, alloc_seen,
                   call, result>>

\* lines 141-160
MonthlyPlan ==
    /\ pc = "monthly_plan"
    /\ LET w == Show(widgets, {"rate", "years", "target_corpus"})
           shown == rendered \cup {"rate", "years", "target_corpus"}
           plan == PlanTable[w["target_corpus"], w["rate"], w["years"]]
       IN IF plan.kind = "ZeroDivisionError"
          THEN /\ EndRun("exception", w, shown)
               /\ UNCHANGED <<mip_info, out>>
          ELSE /\ widgets' = w
               /\ rendered' = shown
               /\ mip_info' = <<plan>>
               /\ out' = Append(out, "plan")
               /\ pc' = "cagr_table"
               /\ UNCHANGED status
    /\ UNCHANGED <<session_state, trigger, allocation, request, llm, explanation, pdf,
                   alloc_seen, call, result>>

\* lines 162-174
CagrTable ==
    /\ pc = "cagr_table"
    /\ out' = Append(out, "cagr")
    /\ pc' = "pdf_button"
    /\ UNCHANGED <<session_state, widgets, rendered, trigger, status,
                   allocation, request, llm, explanation, mip_info, pdf, alloc_seen,
                   call, result>>

\* lines 176-194
PdfButton ==
    /\ pc = "pdf_button"
    /\ rendered' = rendered \cup {"Generate PDF Report"}
    /\ IF trigger = "Generate PDF Report"
       THEN /\ pdf' = <<generate_pdf_bytes("User", Value("age"), Value("income"),
                            Value("risk_tolerance"), Value("goal"),
                            allocation[1], explanation[1], mip_info[1])>>
            /\ out' = Append(out, "download")
       ELSE UNCHANGED <<pdf, out>>
    /\ pc' = "feedback"
    /\ UNCHANGED <<session_state, widgets, trigger, status, allocation, request, llm,
                   explanation, mip_info, alloc_seen, call, result>>

\* lines 196-206: st.session_state.clear() empties the session, the widget
\* values with it, and st.experimental_rerun() starts the next run at once
Feedback ==
    /\ pc = "feedback"
    /\ LET w == Show(widgets, {"rating"})
           thanks == w["rating"] # "Select"
           shown == rendered \cup {"rating"}
                        \cup (IF thanks THEN {"Restart"} ELSE {})
       IN IF thanks /\ trigger = "Restart"
          THEN /\ session_state' = NoState
               /\ widgets' = NoState
               /\ StartRun("none")
          ELSE /\ EndRun("complete", w, shown)
               /\ out' = IF thanks THEN Append(out, "thanks") ELSE out
               /\ UNCHANGED <<session_state, trigger, allocation, request, llm,
                              explanation, mip_info, pdf>>
    /\ UNCHANGED <<alloc_seen, call, result>>

Init ==
    /\ session_state = NoState
    /\ widgets = NoState
    /\ rendered = {}
    /\ trigger = "none"
    /\ pc = "login_section"
    /\ status = "running"
    /\ allocation = <<>>
    /\ request = <<>>
    /\ llm = <<>>
    /\ explanation = <<>>
    /\ mip_info = <<>>
    /\ pdf = <<>>
    /\ out = <<>>
    /\ alloc_seen = [r \in RiskProfiles |-> <<>>]
    /\ call = [target |-> TargetDefault, rate |-> RateDefault, years |-> YearsDefault]
    /\ result = <<>>

Next ==
    \/ \E b \in Buttons : Click(b)
    \/ \E w \in WidgetLabels : \E v \in WidgetChoices[w] : Change(w, v)
    \/ login_section
    \/ LoginGate
    \/ ProfileInputs
    \/ GenerateButton
    \/ Allocate
    \/ DonutChart
    \/ ExplainCall
    \/ ExplainReturn
    \/ WriteExplanation
    \/ MonthlyPlan
    \/ CagrTable
    \/ PdfButton
    \/ Feedback

Spec == Init /\ [][Next]_vars

(***************************************************************************)
(* The plan block on its own: every enumerated (target, rate, years).      *)
(***************************************************************************)
PlanInit ==
    /\ session_state = NoState
    /\ widgets = NoState
    /\ rendered = {}
    /\ trigger = "none"
    /\ pc = "monthly_plan"
    /\ status = "running"
    /\ allocation = <<>>
    /\ request = <<>>
    /\ llm = <<>>
    /\ explanation = <<>>
    /\ mip_info = <<>>
    /\ pdf = <<>>
    /\ out = <<>>
    /\ alloc_seen = [r \in RiskProfiles |-> <<>>]
    /\ call \in [target : Targets, rate : Rates, years : Durations]
    /\ result = <<>>

\* lines 144-160 on the inputs in call
PlanCall ==
    /\ result = <<>>
    /\ result' = <<PlanTable[call.target, call.rate, call.years]>>
    /\ UNCHANGED <<call, sessionVars>>

PlanNext == PlanCall

PlanSpec == PlanInit /\ [][PlanNext]_vars

(***************************************************************************)
(* Properties.                                                             *)
(***************************************************************************)
Total(a) == a.Equity + a.Debt + a.Gold

Returned == UNION {Range(alloc_seen[r]) : r \in RiskProfiles}

\* C1: every allocation get_portfolio_allocation has returned, for Low, Medium
\* and High alike, has Equity + Debt + Gold = 100.
C1_AllocationSumsTo100 ==
    /\ \A a \in Returned : Total(a) = 100
    /\ allocation # <<>> => Total(allocation[1]) = 100

C1_Witness ==
    /\ \A r \in RiskProfiles : alloc_seen[r] # <<>>
    /\ allocation # <<>>

\* the policy table of the design, row by row
PolicyRow(risk) ==
    IF risk = "Low" THEN <<30, 60, 10>>
    ELSE IF risk = "Medium" THEN <<50, 40, 10>>
    ELSE <<70, 20, 10>>

IsRow(a, risk) ==
    /\ DOMAIN a = {"Equity", "Debt", "Gold"}
    /\ <<a.Equity, a.Debt, a.Gold>> = PolicyRow(risk)

\* C2: get_portfolio_allocation returns, for each of Low, Medium and High, exactly
\* the policy row of that risk over the three asset classes Equity, Debt and
\* Gold, and every call with the same risk returns the same allocation.
C2_AllocationIsPolicyRow ==
    /\ \A r \in RiskProfiles :
          \A i \in DOMAIN alloc_seen[r] :
             /\ IsRow(alloc_seen[r][i], r)
             /\ alloc_seen[r][i] = alloc_seen[r][1]
    /\ allocation # <<>> => IsRow(allocation[1], Value("risk_tolerance"))

C2_Witness ==
    /\ \A r \in RiskProfiles : Len(alloc_seen[r]) >= 2
    /\ allocation # <<>>
    /\ Value("risk_tolerance") = "High"

Called == result # <<>>

Planned == Called /\ result[1].kind = "mip_info"

DefaultCall ==
    call = [target |-> TargetDefault, rate |-> RateDefault, years |-> YearsDefault]

\* m is a nearest integer to num / den: 2 * |m * den - num| <= den
IsNearest(m, num, den) ==
    LET md == MulInt(den, m)
        diff == IF Cmp(md, num) >= 0 THEN Sub(md, num) ELSE Sub(num, md)
    IN Cmp(MulSmall(diff, 2), den) <= 0

\* C3 as stated: the plan for (4 500 000, 12.0 %, 10 years) asks for 19 566 a month.
C3_Pinned19566 ==
    (Called /\ DefaultCall) => (Planned /\ result[1].monthly = 19566)

\* C3, amended: every plan's monthly contribution is a nearest whole number to
\* target * r / ((1 + r)^n - 1), with r = rate / 100 / 12 and n = years * 12, and
\* carries the sign of the target; for (4 500 000, 12.0 %, 10 years) it is 19 562.
C3_NearestWholeUnit ==
    Planned =>
        /\ IsNearest(Abs(result[1].monthly),
                     PlanNum(call.target, call.rate, call.years),
                     PlanDen(call.target, call.rate, call.years))
        /\ (call.target >= 0 => result[1].monthly >= 0)
        /\ (call.target <= 0 => result[1].monthly <= 0)
        /\ (DefaultCall => result[1].monthly = 19562)

C3_Witness == Planned /\ DefaultCall /\ result[1].monthly = 19562

Answered == llm # <<>>

WellFormed2xx ==
    /\ llm[1].kind = "response"
    /\ llm[1].status_code \in 200..299
    /\ llm[1].body = "content"

NotAnError ==
    /\ llm[1].kind = "response"
    /\ llm[1].status_code \notin 400..599
    /\ llm[1].body = "content"

FellBack == explanation = <<Fallback>> /\ "llm_error" \in Range(out)

GotContent == explanation = <<Content>> /\ "llm_error" \notin Range(out)

GenerateRunOver == pc = "idle" /\ trigger = "Generate Portfolio"

\* C6 as stated: only a well-formed 2xx response yields the response's content;
\* every other outcome yields the fallback string and an error notice.
C6_ContentOnlyOn2xx ==
    Answered => IF WellFormed2xx THEN GotContent ELSE FellBack

\* C6, amended: explain_portfolio always returns; on a request exception, a 4xx or
\* 5xx status, or a body without choices[0].message.content it returns the
\* fallback string and puts up an error notice; on any other response (a status
\* outside 400..599 with a well-formed body) it returns the content; either way
\* the run goes on to the plan and the CAGR table.
C6_ExplainNeverRaises ==
    /\ Answered => /\ explanation # <<>>
                   /\ status # "exception"
                   /\ IF NotAnError THEN GotContent ELSE FellBack
    /\ GenerateRunOver => /\ Answered
                          /\ status = "complete"
                          /\ mip_info # <<>>
                          /\ "plan" \in Range(out)
                          /\ "cagr" \in Range(out)

C6_Witness ==
    /\ GenerateRunOver
    /\ llm[1].status_code = 500
    /\ FellBack
    /\ "cagr" \in Range(out)

\* C7: the run started by a click on Generate PDF Report renders the report and
\* offers it for download.
C7_PdfOfferedAfterClick ==
    (pc = "idle" /\ trigger = "Generate PDF Report") =>
        /\ pdf # <<>>
        /\ pdf[1].file_name = "Wealth_Report.pdf"
        /\ "download" \in Range(out)

\* C9 as stated: neither the allocation display nor the plan computation happens
\* before explain_portfolio has returned.
C9_NothingBeforeExplainReturns ==
    ("chart" \in Range(out) \/ mip_info # <<>>) => explanation # <<>>

\* the order in which a run puts things on the page
PageOrder ==
    <<"logged_in", "chart", "llm_error", "explanation", "plan", "cagr",
      "download", "thanks">>

Place(x) == CHOOSE i \in DOMAIN PageOrder : PageOrder[i] = x

InOrder(seq) ==
    \A i, j \in DOMAIN seq : i < j => Place(seq[i]) < Place(seq[j])

BeforeCall == {"allocation", "donut_chart", "explain_call", "explain_wait"}

\* C9, amended: the allocation lookup and its chart come before the blocking
\* call; while the call is outstanding nothing else happens; the explanation,
\* the plan and the CAGR table come only after explain_portfolio has returned;
\* the steps of a run follow one another in script order.
C9_PlanAfterExplainReturns ==
    /\ (mip_info # <<>> \/ "plan" \in Range(out) \/ "cagr" \in Range(out))
          => (Answered /\ explanation # <<>>)
    /\ pc = "explain_wait"
          => (allocation # <<>> /\ "chart" \in Range(out)
              /\ ~Answered /\ explanation = <<>> /\ mip_info = <<>>)
    /\ pc \in BeforeCall => ~Answered
    /\ InOrder(out)

C9_Witness ==
    /\ mip_info # <<>>
    /\ llm[1].kind = "Timeout"
    /\ out = <<"chart", "llm_error", "explanation", "plan">>

Gated ==
    {"profile_inputs", "generate_button", "allocation", "donut_chart",
     "explain_call", "explain_wait", "write_explanation", "monthly_plan",
     "cagr_table", "pdf_button", "feedback"}

ProfileWidgets == {"age", "income", "risk_tolerance", "goal"}

GateHolds ==
    /\ pc \in Gated => LoggedIn
    /\ (\/ rendered \cap ProfileWidgets # {}
        \/ allocation # <<>>
        \/ Answered
        \/ mip_info # <<>>
        \/ pdf # <<>>) => LoggedIn
    /\ (pc = "idle" /\ ~LoggedIn) => status = "stopped"

SetOnlyByLogin ==
    (~LoggedIn /\ LoggedIn') =>
        (pc = "login_section" /\ trigger = "Login"
         /\ session_state'["user"] = [email |-> widgets'["email"]])

ClearedOnlyByRestart ==
    (LoggedIn /\ ~LoggedIn') =>
        (pc = "feedback" /\ trigger = "Restart" /\ pc' = "login_section"
         /\ trigger' = "none")

====
